---- MODULE Spec2Model ----
(***************************************************************************)
(* Model of linkly-app.py: a Streamlit script that caches the tracked      *)
(* links and their click history in st.session_state on the first script   *)
(* run and re-derives window totals and dense daily series on every later  *)
(* run.                                                                    *)
(*                                                                         *)
(* Dates.  A date string "2024-MM-DD" of the provider payload is the pair  *)
(* <<MM, DD>>; a date object (datetime.date, pandas Timestamp) is its day  *)
(* ordinal.  Every well-formed string of the model lies in January, the    *)
(* malformed one carries month 13.                                         *)
(***************************************************************************)
EXTENDS Integers, Sequences, FiniteSets, TLC

\* ------------------------------------------------------------------ bounds
MaxDay == 3
MaxCount == 2
MaxPts == 2
MaxLinks == 2
MaxCalls == 2

\* ------------------------------------------------------------------ data
Days == 1..MaxDay
BadDateStr == <<13, 1>>
DateStrs == {<<1, d>> : d \in Days} \cup {BadDateStr}
Points == [t : DateStrs, y : 1..MaxCount]

RECURSIVE SeqsUpTo(_, _)
SeqsUpTo(S, n) ==
  IF n = 0 THEN {<<>>}
  ELSE LET shorter == SeqsUpTo(S, n - 1)
       IN shorter \cup {Append(s, x) : s \in {q \in shorter : Len(q) = n - 1}, x \in S}

PointSeqs == SeqsUpTo(Points, MaxPts)

\* ------------------------------------------------------------------ dates
\* datetime.strptime(s, "%Y-%m-%d") and pd.to_datetime(s) raise ValueError
\* on a month outside 1..12 or a day outside 1..31.
ValidDateStr(t) == t[1] \in 1..12 /\ t[2] \in 1..31
strptime(t) == 31 * (t[1] - 1) + t[2]
to_datetime(t) == 31 * (t[1] - 1) + t[2]

RECURSIVE SumY(_)
SumY(s) == IF s = <<>> THEN 0 ELSE s[1].y + SumY(Tail(s))

\* ------------------------------------------- render_main_page, lines 95-100
\* The chained comparison parses the date of every point, so one malformed
\* date raises out of the comprehension.
filtered_total(clicks_data, start_date, end_date) ==
  IF \E i \in 1..Len(clicks_data) : ~ValidDateStr(clicks_data[i].t)
  THEN [raised |-> TRUE, value |-> 0]
  ELSE LET filtered_clicks == SelectSeq(clicks_data,
               LAMBDA p : start_date <= strptime(p.t) /\ strptime(p.t) <= end_date)
       IN [raised |-> FALSE, value |-> SumY(filtered_clicks)]

\* ------------------------------------------- preprocess_clicks_data
\* pd.date_range(start, end, freq="D"): every day from start to end, empty
\* when end < start.
date_range(start_date, end_date) ==
  [i \in 1..(IF end_date >= start_date THEN end_date - start_date + 1 ELSE 0)
     |-> start_date + i - 1]

\* clicks_df["Data"] = pd.to_datetime(clicks_df["t"]); rename y -> Cliques.
clicks_frame(clicks_data) ==
  [i \in 1..Len(clicks_data) |->
     [Data |-> to_datetime(clicks_data[i].t), Cliques |-> clicks_data[i].y]]

\* The same join keeping only the last matching right row of each day.
RECURSIVE left_merge_last(_, _)
left_merge_last(days, clicks_df) ==
  IF days = <<>> THEN <<>>
  ELSE LET d == Head(days)
           hits == SelectSeq(clicks_df, LAMBDA r : r.Data = d)
           rows == IF hits = <<>>
                   THEN << [Data |-> d, Cliques |-> 0, isna |-> TRUE] >>
                   ELSE << [Data |-> d, Cliques |-> hits[Len(hits)].Cliques,
                            isna |-> FALSE] >>
       IN rows \o left_merge_last(Tail(days), clicks_df)

\* pd.merge(full_df, clicks_df, on="Data", how="left"): the left rows keep
\* their order; a left row gets one output row per matching right row, in
\* the right frame's order, and one row with a missing value (isna) when
\* nothing matches.
RECURSIVE left_merge(_, _)
left_merge(days, clicks_df) ==
  IF days = <<>> THEN <<>>
  ELSE LET d == Head(days)
           hits == SelectSeq(clicks_df, LAMBDA r : r.Data = d)
           rows == IF hits = <<>>
                   THEN << [Data |-> d, Cliques |-> 0, isna |-> TRUE] >>
                   ELSE [i \in 1..Len(hits) |->
                           [Data |-> d, Cliques |-> hits[i].Cliques, isna |-> FALSE]]
       IN rows \o left_merge(Tail(days), clicks_df)

\* A variant whose missing days are left out instead of zero-filled.
fillna_dropna(merged_df) ==
  LET kept == SelectSeq(merged_df, LAMBDA r : ~r.isna)
  IN [i \in 1..Len(kept) |-> [Data |-> kept[i].Data, Cliques |-> kept[i].Cliques]]

\* merged_df["Cliques"].fillna(0)
fillna(merged_df) ==
  [i \in 1..Len(merged_df) |->
     [Data |-> merged_df[i].Data,
      Cliques |-> IF merged_df[i].isna THEN 0 ELSE merged_df[i].Cliques]]

\* preprocess_clicks_data, lines 142-170
preprocess_clicks_data(clicks_data, start_date, end_date) ==
  LET days == date_range(start_date, end_date)
  IN IF clicks_data = <<>>
     THEN [raised |-> FALSE,
           rows |-> [i \in 1..Len(days) |-> [Data |-> days[i], Cliques |-> 0]]]
     ELSE IF \E i \in 1..Len(clicks_data) : ~ValidDateStr(clicks_data[i].t)
     THEN [raised |-> TRUE, rows |-> <<>>]
     ELSE [raised |-> FALSE,
           rows |-> fillna(left_merge(days, clicks_frame(clicks_data)))]

\* ------------------------------------------------------------------ state
Names == {"a", "b"}
LinkIds == 1..MaxLinks
Links == [id : LinkIds, name : Names]

\* Link lists the provider can return: distinct ids, names possibly repeated.
LinkLists ==
  {l \in SeqsUpTo(Links, MaxLinks) :
     \A i, j \in 1..Len(l) : i # j => l[i].id # l[j].id}

\* "traffic" payloads the provider can return for one link.
TrafficPayloads ==
  { <<>>, << [t |-> <<1, 1>>, y |-> 1] >>, << [t |-> BadDateStr, y |-> 1] >> }

VARIABLES
  keys,            \* the keys present in st.session_state
  tracked_links,   \* st.session_state.tracked_links
  analytics_data,  \* st.session_state.analytics_data: link id -> raw points
  selected_link,   \* st.session_state.selected_link (0 while the key is absent)
  pc,              \* position of the script run; "idle" between runs
  idx,             \* position of the loop of line 58 in tracked_links
  view,            \* what the current run has rendered
  table_data,      \* "Cliques (Intervalo Selecionado)" column of the main page
  plot_data,       \* rows charted on the link's page
  listCalls,       \* requests sent to .../links/export
  histCalls,       \* requests sent to .../clicks, per link id
  listFailed,      \* the links request raised a RequestException
  histFailed,      \* link ids whose clicks request raised a RequestException
  arg_clicks,      \* preprocess_clicks_data / filter argument: clicks_data
  arg_start,       \* start_date
  arg_end,         \* end_date
  total_clicks,    \* outcome of the filter of lines 95-100 on the arguments
  series           \* outcome of preprocess_clicks_data on the arguments

sessionVars == <<keys, tracked_links, analytics_data, selected_link, pc, idx,
                 view, table_data, plot_data,
                 listCalls, histCalls, listFailed, histFailed>>
seriesVars == <<arg_clicks, arg_start, arg_end, total_clicks, series>>
vars == <<sessionVars, seriesVars>>

NotCalled == [called |-> FALSE, raised |-> FALSE, value |-> 0, rows |-> <<>>]

ids(links) == {links[i].id : i \in 1..Len(links)}
names(links) == {links[i].name : i \in 1..Len(links)}
Bump(n) == IF n < MaxCalls THEN n + 1 ELSE n

\* analytics_data.get(link_id, [])
Get(data, link_id) == IF link_id \in DOMAIN data THEN data[link_id] ELSE <<>>

\* ------------------------------------------------------------------ provider
\* fetch_tracked_links: the JSON body, or [] when requests raises.
fetch_tracked_links ==
  {[failed |-> FALSE, value |-> l] : l \in LinkLists}
    \cup {[failed |-> TRUE, value |-> <<>>]}

\* A variant without the except clause: the exception leaves the function.
fetch_clicks_for_link_uncaught(link_id) ==
  {[failed |-> FALSE, raised |-> FALSE, value |-> p] : p \in TrafficPayloads}
    \cup {[failed |-> TRUE, raised |-> TRUE, value |-> <<>>]}

\* fetch_clicks_for_link: the "traffic" list, or [] when requests raises.
fetch_clicks_for_link(link_id) ==
  {[failed |-> FALSE, raised |-> FALSE, value |-> p] : p \in TrafficPayloads}
    \cup {[failed |-> TRUE, raised |-> FALSE, value |-> <<>>]}

\* ------------------------------------------------------------------ session
SessionInit ==
  /\ keys = {}
  /\ tracked_links = <<>>
  /\ analytics_data = <<>>
  /\ selected_link = 0
  /\ pc = "idle"
  /\ idx = 1
  /\ view = "none"
  /\ table_data = <<>>
  /\ plot_data = <<>>
  /\ listCalls = 0
  /\ histCalls = [i \in LinkIds |-> 0]
  /\ listFailed = FALSE
  /\ histFailed = {}

SeriesIdle ==
  /\ arg_clicks = <<>>
  /\ arg_start = 1
  /\ arg_end = 1
  /\ total_clicks = NotCalled
  /\ series = NotCalled

Init == SessionInit /\ SeriesIdle

\* A script run starts from the top with an empty page.
FreshRun ==
  /\ pc' = "links"
  /\ view' = "none"
  /\ table_data' = <<>>
  /\ plot_data' = <<>>

\* Streamlit runs the script: on page load and on every interaction.
Run ==
  /\ pc = "idle"
  /\ FreshRun
  /\ UNCHANGED <<keys, tracked_links, analytics_data, selected_link, idx,
                 listCalls, histCalls, listFailed, histFailed>>
  /\ UNCHANGED seriesVars

\* A run ends before its last statement: the script is stopped for a rerun
\* or an exception escapes a statement.
StopRun ==
  /\ pc # "idle"
  /\ pc' = "idle"
  /\ UNCHANGED <<keys, tracked_links, analytics_data, selected_link, idx,
                 view, table_data, plot_data,
                 listCalls, histCalls, listFailed, histFailed>>
  /\ UNCHANGED seriesVars

\* if "tracked_links" not in st.session_state
needs_links_always(k) == TRUE
needs_links(k) == "tracked_links" \notin k

\* if "analytics_data" not in st.session_state
needs_analytics(k) == "analytics_data" \notin k

\* initialize_session_state, lines 51-53
InitLinks ==
  /\ pc = "links"
  /\ pc' = "analytics"
  /\ IF needs_links(keys)
     THEN \E r \in fetch_tracked_links :
            /\ tracked_links' = r.value
            /\ keys' = keys \cup {"tracked_links"}
            /\ listCalls' = Bump(listCalls)
            /\ listFailed' = r.failed
     ELSE UNCHANGED <<tracked_links, keys, listCalls, listFailed>>
  /\ UNCHANGED <<analytics_data, selected_link, idx, view, table_data, plot_data,
                 histCalls, histFailed>>
  /\ UNCHANGED seriesVars

\* initialize_session_state, lines 55-56
InitAnalytics ==
  /\ pc = "analytics"
  /\ IF needs_analytics(keys)
     THEN /\ analytics_data' = <<>>
          /\ keys' = keys \cup {"analytics_data"}
          /\ idx' = 1
          /\ pc' = IF tracked_links = <<>> THEN "render" ELSE "loop"
     ELSE /\ pc' = "render"
          /\ UNCHANGED <<analytics_data, keys, idx>>
  /\ UNCHANGED <<tracked_links, selected_link, view, table_data, plot_data,
                 listCalls, histCalls, listFailed, histFailed>>
  /\ UNCHANGED seriesVars

\* initialize_session_state, lines 58-63: one iteration of the loop
LoopStep ==
  /\ pc = "loop"
  /\ LET link_id == tracked_links[idx].id
     IN \E r \in fetch_clicks_for_link(link_id) :
          /\ histCalls' = [histCalls EXCEPT ![link_id] = Bump(@)]
          /\ histFailed' = IF r.failed THEN histFailed \cup {link_id} ELSE histFailed
          /\ IF r.raised
             THEN /\ pc' = "idle"
                  /\ UNCHANGED <<analytics_data, idx>>
             ELSE /\ analytics_data' =
                       [k \in DOMAIN analytics_data \cup {link_id} |->
                          IF k = link_id THEN r.value ELSE analytics_data[k]]
                  /\ idx' = idx + 1
                  /\ pc' = IF idx = Len(tracked_links) THEN "render" ELSE "loop"
  /\ UNCHANGED <<keys, tracked_links, selected_link, view, table_data, plot_data,
                 listCalls, listFailed>>
  /\ UNCHANGED seriesVars

\* next((link for link in tracked_links if link["name"] == name), None)["id"]
first_named(links, name) ==
  links[CHOOSE i \in 1..Len(links) :
          /\ links[i].name = name
          /\ \A j \in 1..(i - 1) : links[j].name # name]

\* A variant that stores the position of the link instead of its id.
chosen_id_position(links, name) ==
  CHOOSE i \in 1..Len(links) :
    /\ links[i].name = name
    /\ \A j \in 1..(i - 1) : links[j].name # name

chosen_id(links, name) == first_named(links, name).id

\* A variant of the back button that also drops the cached history.
keys_after_back_clearing(k) == k \ {"selected_link", "analytics_data"}

\* del st.session_state.selected_link
keys_after_back(k) == k \ {"selected_link"}

\* render_main_page, reached from main when no link is selected
RenderMain ==
  /\ pc = "render"
  /\ "selected_link" \notin keys
  /\ \E start_date \in Days, end_date \in Days, submit_button \in BOOLEAN :
       LET totals == [i \in 1..Len(tracked_links) |->
                        filtered_total(Get(analytics_data, tracked_links[i].id),
                                       start_date, end_date)]
       IN IF \E i \in 1..Len(totals) : totals[i].raised
          THEN \* ValueError leaves the script
               /\ view' = "date_error"
               /\ pc' = "idle"
               /\ UNCHANGED <<keys, selected_link, table_data, plot_data>>
          ELSE IF submit_button /\ tracked_links # <<>>
          THEN \E selected_link_name \in names(tracked_links) :
                 /\ selected_link' = chosen_id(tracked_links, selected_link_name)
                 /\ keys' = keys \cup {"selected_link"}
                 /\ FreshRun           \* st.rerun()
          ELSE /\ view' = "main"
               /\ table_data' = [i \in 1..Len(totals) |-> totals[i].value]
               /\ pc' = "idle"
               /\ UNCHANGED <<keys, selected_link, plot_data>>
  /\ UNCHANGED <<tracked_links, analytics_data, idx,
                 listCalls, histCalls, listFailed, histFailed>>
  /\ UNCHANGED seriesVars

\* render_individual_url_page(st.session_state.selected_link)
RenderLink ==
  /\ pc = "render"
  /\ "selected_link" \in keys
  /\ LET link_id == selected_link
     IN IF link_id \notin ids(tracked_links)
        THEN \* list.index raises ValueError
             /\ view' = "index_error"
             /\ pc' = "idle"
             /\ UNCHANGED <<keys, selected_link, table_data, plot_data>>
        ELSE \E selected_link_name \in names(tracked_links),
                start_date \in Days, end_date \in Days, back \in BOOLEAN :
               IF chosen_id(tracked_links, selected_link_name) # link_id
               THEN /\ selected_link' = chosen_id(tracked_links, selected_link_name)
                    /\ FreshRun        \* st.rerun()
                    /\ UNCHANGED keys
               ELSE IF ~\E i \in 1..Len(tracked_links) : tracked_links[i].id = link_id
               THEN /\ view' = "not_found"
                    /\ pc' = "idle"
                    /\ UNCHANGED <<keys, selected_link, table_data, plot_data>>
               ELSE LET plot == preprocess_clicks_data(
                                  Get(analytics_data, link_id), start_date, end_date)
                    IN IF plot.raised
                       THEN /\ view' = "date_error"
                            /\ pc' = "idle"
                            /\ UNCHANGED <<keys, selected_link, table_data, plot_data>>
                       ELSE IF back
                       THEN /\ keys' = keys_after_back(keys)
                            /\ selected_link' = 0
                            /\ FreshRun    \* st.rerun()
                       ELSE /\ view' = "link"
                            /\ plot_data' = plot.rows
                            /\ pc' = "idle"
                            /\ UNCHANGED <<keys, selected_link, table_data>>
  /\ UNCHANGED <<tracked_links, analytics_data, idx,
                 listCalls, histCalls, listFailed, histFailed>>
  /\ UNCHANGED seriesVars

Next ==
  \/ Run
  \/ StopRun
  \/ InitLinks
  \/ InitAnalytics
  \/ LoopStep
  \/ RenderMain
  \/ RenderLink

Spec == Init /\ [][Next]_vars

\* ------------------------------------------------------------------ series
\* The two derivations applied to every point sequence and window of the
\* bounds.
InitSeries ==
  /\ SessionInit
  /\ arg_clicks \in PointSeqs
  /\ arg_start \in Days
  /\ arg_end \in Days
  /\ total_clicks = NotCalled
  /\ series = NotCalled

CallFilter ==
  /\ ~total_clicks.called
  /\ LET r == filtered_total(arg_clicks, arg_start, arg_end)
     IN total_clicks' = [called |-> TRUE, raised |-> r.raised,
                         value |-> r.value, rows |-> <<>>]
  /\ UNCHANGED <<arg_clicks, arg_start, arg_end, series>>
  /\ UNCHANGED sessionVars

CallPreprocess ==
  /\ ~series.called
  /\ LET r == preprocess_clicks_data(arg_clicks, arg_start, arg_end)
     IN series' = [called |-> TRUE, raised |-> r.raised,
                   value |-> 0, rows |-> r.rows]
  /\ UNCHANGED <<arg_clicks, arg_start, arg_end, total_clicks>>
  /\ UNCHANGED sessionVars

NextSeries ==
  \/ CallFilter
  \/ CallPreprocess

SpecSeries == InitSeries /\ [][NextSeries]_vars

\* ------------------------------------------------------------------ claims
AllParseable(P) == \A i \in 1..Len(P) : ValidDateStr(P[i].t)
UniqueDates(P) == \A i, j \in 1..Len(P) : i # j => P[i].t # P[j].t
PointsOn(P, d) == {i \in 1..Len(P) : ValidDateStr(P[i].t) /\ strptime(P[i].t) = d}
RowsOn(rows, d) == {i \in 1..Len(rows) : rows[i].Data = d}
Window == arg_start..arg_end

RECURSIVE SumCliques(_)
SumCliques(rows) == IF rows = <<>> THEN 0 ELSE rows[1].Cliques + SumCliques(Tail(rows))

Populated == {"tracked_links", "analytics_data"} \subseteq keys /\ pc # "loop"

C2_FailureConfined ==
  /\ [](/\ (listFailed => ("tracked_links" \in keys /\ tracked_links = <<>>))
        /\ \A i \in histFailed : i \in DOMAIN analytics_data => analytics_data[i] = <<>>)
  /\ [][/\ (~listFailed /\ listFailed') => pc' = "analytics"
        /\ \A i \in LinkIds :
             (i \notin histFailed /\ i \in histFailed') =>
               /\ i \in DOMAIN analytics_data'
               /\ analytics_data'[i] = <<>>
               /\ idx' = idx + 1
               /\ pc' = IF idx = Len(tracked_links) THEN "render" ELSE "loop"
        /\ (pc = "loop" /\ pc' = "render") =>
             DOMAIN analytics_data' = ids(tracked_links)]_vars

\* The first link's request failed, the second link's history was still
\* fetched and stored, and the run reached the page.
C2_Witness ==
  /\ Len(tracked_links) >= 2
  /\ tracked_links[1].id \in histFailed
  /\ tracked_links[2].id \in DOMAIN analytics_data
  /\ analytics_data[tracked_links[2].id] # <<>>
  /\ view = "main"

\* C3: for every window with start <= end and every sequence of dated
\* points, the series has (end - start) + 1 rows, one per day of the window
\* in increasing order.
C3_DenseCalendar ==
  (series.called /\ arg_start <= arg_end /\ AllParseable(arg_clicks)) =>
    /\ ~series.raised
    /\ Len(series.rows) = arg_end - arg_start + 1
    /\ \A i \in 1..Len(series.rows) : series.rows[i].Data = arg_start + i - 1

\* C4: with at most one point per date, the series has one row per day of
\* the window, carrying the count of the point of that day and 0 when there
\* is none; no error is raised.
C4_PointwiseCounts ==
  (series.called /\ arg_start <= arg_end
     /\ AllParseable(arg_clicks) /\ UniqueDates(arg_clicks)) =>
    /\ ~series.raised
    /\ Len(series.rows) = arg_end - arg_start + 1
    /\ \A i \in 1..Len(series.rows) :
         LET d == arg_start + i - 1
         IN /\ series.rows[i].Data = d
            /\ \A k \in PointsOn(arg_clicks, d) : series.rows[i].Cliques = arg_clicks[k].y
            /\ PointsOn(arg_clicks, d) = {} => series.rows[i].Cliques = 0

\* A window holding a day with a point and a day without one.
C4_Witness ==
  /\ series.called
  /\ AllParseable(arg_clicks) /\ UniqueDates(arg_clicks)
  /\ \E d \in Window : PointsOn(arg_clicks, d) # {}
  /\ \E d \in Window : PointsOn(arg_clicks, d) = {}
  /\ \E k \in 1..Len(arg_clicks) : strptime(arg_clicks[k].t) \notin Window

\* C5: the counts of the dense series add up to the main page's total for
\* the same points and window.
C5_SeriesTotalIsWindowTotal ==
  (series.called /\ total_clicks.called /\ AllParseable(arg_clicks)) =>
    /\ ~series.raised
    /\ ~total_clicks.raised
    /\ SumCliques(series.rows) = total_clicks.value

\* Both derivations ran on points of which two share a day of the window
\* and one lies outside it.
C5_Witness ==
  /\ series.called /\ total_clicks.called
  /\ AllParseable(arg_clicks)
  /\ \E d \in Window : Cardinality(PointsOn(arg_clicks, d)) >= 2
  /\ total_clicks.value > 0

\* C6: when several points share a day of the window, the series has a
\* single row for that day, with the count of the last of them.
C6_LastSeenWins ==
  (series.called /\ arg_start <= arg_end /\ AllParseable(arg_clicks)) =>
    \A d \in Window :
      LET same == PointsOn(arg_clicks, d)
      IN Cardinality(same) >= 2 =>
           /\ ~series.raised
           /\ Cardinality(RowsOn(series.rows, d)) = 1
           /\ \A i \in RowsOn(series.rows, d) :
                series.rows[i].Cliques =
                  arg_clicks[CHOOSE k \in same : \A j \in same : j <= k].y

\* C7: once both keys are set and the populating loop is over, no step
\* changes the cached links or the cached points; the two keys are never
\* removed, and the only key a step removes is selected_link.
C7_CacheReadOnly ==
  [][/\ Populated => (tracked_links' = tracked_links /\ analytics_data' = analytics_data)
     /\ keys \ keys' \subseteq {"selected_link"}]_vars

\* After population a link was selected and its page rendered from the
\* cached points, which are still in the cache.
C7_Witness ==
  /\ Populated
  /\ view = "link"
  /\ \E i \in 1..Len(plot_data) : plot_data[i].Cliques > 0
  /\ analytics_data[selected_link] # <<>>

\* C8: a point whose date cannot be parsed is dropped: the window total and
\* the dense series are those of the remaining points.
C8_MalformedDropped ==
  LET wellformed == SelectSeq(arg_clicks, LAMBDA p : ValidDateStr(p.t))
  IN /\ total_clicks.called =>
          /\ ~total_clicks.raised
          /\ total_clicks.value = filtered_total(wellformed, arg_start, arg_end).value
     /\ series.called =>
          /\ ~series.raised
          /\ series.rows = preprocess_clicks_data(wellformed, arg_start, arg_end).rows

\* C9: a set selected_link is the id of a cached link, the link's page never
\* fails its index lookup nor reports the link missing, and with no cached
\* link the key is never set and the link's page never rendered.
C9_SelectionIsCached ==
  /\ "selected_link" \in keys =>
       ("tracked_links" \in keys /\ selected_link \in ids(tracked_links))
  /\ view \notin {"index_error", "not_found"}
  /\ tracked_links = <<>> => ("selected_link" \notin keys /\ view # "link")

\* The page of the second link of the list is rendered.
C9_Witness ==
  /\ view = "link"
  /\ "selected_link" \in keys
  /\ Len(tracked_links) >= 2
  /\ selected_link = tracked_links[2].id

\* C10: whenever a page is about to be rendered with the history key set,
\* analytics_data has an entry for exactly the cached links.
C10_HistoryCoversLinks ==
  (pc = "render" /\ "analytics_data" \in keys) =>
    DOMAIN analytics_data = ids(tracked_links)

====
